---- MODULE Spec2Model ----
(***************************************************************************)
(* Asynchronous job-processing core: the job record and its lifecycle      *)
(* operations (backend/app/services/job_queue.py), the worker pool         *)
(* (backend/app/worker.py) and the job endpoints (backend/app/api/jobs.py) *)
(* over the key/value + list store (backend/app/core/redis.py).            *)
(*                                                                         *)
(* Every orchestrator operation is a read of the record (get_job), a       *)
(* change of the local copy and a write of the whole record (update_job).  *)
(* Spec interleaves worker loop, tasks and endpoint calls at every await   *)
(* of a store operation; SpecOps applies each operation as one call with   *)
(* no other caller in between.                                             *)
(***************************************************************************)
EXTENDS Integers, Sequences, FiniteSets, TLC

\* ---------------------------------------------------------------- bounds
MaxJobs == 2
MaxLoadJobs == 3
MaxFiles == 1
MaxRetries == 1
MaxConcurrentJobs == 2
MaxItems == 2
MaxCancels == 1
MaxTime == 1
MaxUsers == 1
MaxOpsJobs == 1
MaxCount == 3
MaxFailedCount == 1
\* the settings job_ttl and job_result_ttl in units of now: what matters is
\* that a result is kept for a shorter time than a running job
JobTtl == 2
JobResultTtl == 1

\* ---------------------------------------------------------------- values
JobIds == 1..MaxLoadJobs
Users == 1..MaxUsers
TaskIds == 1..(MaxConcurrentJobs + 2)
CallIds == 1..MaxCancels
\* the callers of the endpoints: the users and one more, who creates jobs in
\* SpecList only
Callers == 1..(MaxUsers + 1)

PENDING == "pending"
PROCESSING == "processing"
COMPLETED == "completed"
FAILED == "failed"
CANCELLED == "cancelled"
JobStatus == {PENDING, PROCESSING, COMPLETED, FAILED, CANCELLED}

INGEST_FILE == "ingest_file"
INGEST_TEXT == "ingest_text"
BATCH_INGEST == "batch_ingest"
REINDEX == "reindex"
DELETE_DOCUMENTS == "delete_documents"
JobType == {INGEST_FILE, INGEST_TEXT, BATCH_INGEST, REINDEX, DELETE_DOCUMENTS}

\* the order in which run() visits the dispatch queues
PolledTypes == <<INGEST_FILE, INGEST_TEXT, BATCH_INGEST>>

\* Python None: for a record, a timestamp, a message, a result, an argument
None == [status |-> "none"]
NoTime == -1
NoText == "null"
NoArg == -1

\* exception texts an executor can raise with
ErrMsgs == {"err_a", "err_b"}

\* ---------------------------------------------------------------- JobData
is_terminal(job) == job.status \in {COMPLETED, FAILED, CANCELLED}

\* progress as the fraction <<numerator, denominator>>
progress_unclamped(job) ==
    IF job.total_items = 0 THEN <<0, 1>>
    ELSE <<job.processed_items, job.total_items>>

progress(job) ==
    IF job.total_items = 0 THEN <<0, 1>>
    ELSE IF job.processed_items >= job.total_items THEN <<1, 1>>
    ELSE <<job.processed_items, job.total_items>>

\* JobData(job_id, user_id, job_type, total_items, max_retries, metadata)
JobData(job_id, user_id, job_type, total_items, metadata, t) ==
    [job_id |-> job_id, user_id |-> user_id, job_type |-> job_type,
     status |-> PENDING,
     total_items |-> total_items, processed_items |-> 0, failed_items |-> 0,
     created_at |-> t, started_at |-> NoTime, completed_at |-> NoTime,
     error_message |-> NoText, retry_count |-> 0, max_retries |-> MaxRetries,
     result |-> NoText, metadata |-> metadata]

\* ---------------------------------------------------------------- record changes
\* start_job: the change made between get_job and update_job
start_job(job, t) ==
    [job EXCEPT !.status = PROCESSING, !.started_at = t]

update_progress_always_sets(job, processed_items, failed_items, increment) ==
    [job EXCEPT
       !.processed_items = IF processed_items = NoArg THEN @ ELSE processed_items,
       !.failed_items = IF failed_items = NoArg THEN @ ELSE failed_items]

update_progress(job, processed_items, failed_items, increment) ==
    [job EXCEPT
       !.processed_items =
           IF processed_items = NoArg THEN @
           ELSE IF increment THEN @ + processed_items ELSE processed_items,
       !.failed_items =
           IF failed_items = NoArg THEN @
           ELSE IF increment THEN @ + failed_items ELSE failed_items]

complete_job_keeps_cancelled(job, result, t) ==
    IF job.status = CANCELLED THEN job
    ELSE [job EXCEPT !.status = COMPLETED, !.completed_at = t, !.result = result,
                     !.processed_items = job.total_items]

complete_job_sets_total(job, result, t) ==
    [job EXCEPT !.status = COMPLETED, !.completed_at = t, !.result = result,
                !.total_items = job.processed_items]

complete_job(job, result, t) ==
    [job EXCEPT !.status = COMPLETED, !.completed_at = t, !.result = result,
                !.processed_items = job.total_items]

\* fail_job: does the call take the retry branch?
will_retry(job, should_retry) ==
    should_retry /\ job.retry_count + 1 <= job.max_retries

fail_job_restamps(job, error_message, should_retry, t) ==
    IF will_retry(job, should_retry)
    THEN [job EXCEPT !.error_message = error_message, !.retry_count = @ + 1,
                     !.status = PENDING, !.created_at = t]
    ELSE [job EXCEPT !.error_message = error_message, !.retry_count = @ + 1,
                     !.status = FAILED, !.completed_at = t]

fail_job(job, error_message, should_retry, t) ==
    IF will_retry(job, should_retry)
    THEN [job EXCEPT !.error_message = error_message, !.retry_count = @ + 1,
                     !.status = PENDING]
    ELSE [job EXCEPT !.error_message = error_message, !.retry_count = @ + 1,
                     !.status = FAILED, !.completed_at = t]

\* cancel_job: the record is changed and written unless it is terminal
cancel_writes_always(job) == TRUE

cancel_writes(job) == ~is_terminal(job)

cancel_job(job, t) ==
    [job EXCEPT !.status = CANCELLED, !.completed_at = t]


\* ---------------------------------------------------------------- executors
\* metadata is modelled by the number of inputs it names: for ingest_file /
\* ingest_text 0 means file_path / content is missing, for batch_ingest it is
\* len(file_paths).
\* The next thing an executor does at position idx of its run:
\*   <<"raise", text>>, <<"raise_any">> (the ingestion itself fails),
\*   <<"work">> (one ingestion that succeeds or fails), <<"return">>.
process_ingest_job(job, idx) ==
    IF job.metadata = 0 THEN <<"raise", "missing_input">>
    ELSE IF idx = 0 THEN <<"ingest">>
    ELSE <<"return">>

process_batch_ingest_job(job, idx) ==
    IF job.metadata = 0 THEN <<"raise", "missing_input">>
    ELSE IF idx < job.metadata THEN <<"file">>
    ELSE <<"return">>

\* process_job's dispatch on job.job_type
executor(job, idx) ==
    IF job.job_type \in {INGEST_FILE, INGEST_TEXT} THEN process_ingest_job(job, idx)
    ELSE IF job.job_type = BATCH_INGEST THEN process_batch_ingest_job(job, idx)
    ELSE <<"raise", "unknown_job_type">>

\* ---------------------------------------------------------------- state
VARIABLES
    store,         \* job:{job_id} -> record or None
    expires,       \* job:{job_id} -> time at which Redis drops the key
    queue,         \* queue:{job_type} -> list of job ids
    user_jobs,     \* user:{user_id}:jobs -> list of job ids
    next_id,       \* number of ids handed out by create_job
    now,           \* datetime.utcnow()
    worker,        \* position of JobWorker.run: pc, index in PolledTypes, popped id
    running,       \* JobWorker._running
    active_tasks,  \* run()'s active_tasks
    tasks,         \* the process_job tasks: position and locals
    calls,         \* POST /jobs/{id}/cancel requests: position and locals
    attempts,      \* history: times each job was handed to its executor
    spawned,       \* history: tasks created for each job
    safe_cancel,   \* history: jobs cancelled while pending with their id still queued
    raised,        \* history: text of the last exception of each job's task
    last,          \* SpecOps: the last operation called, its arguments and result
    in_memory_cache, \* RedisManager._in_memory_cache: job:{job_id} -> record or None
    recent         \* history: the value of the last set of job:{job_id}, None after a delete

storeVars == <<store, expires, queue, user_jobs, next_id>>
workerVars == <<worker, running, active_tasks, tasks>>
histVars == <<attempts, spawned, safe_cancel, raised>>
kvVars == <<in_memory_cache, recent>>
vars == <<store, expires, queue, user_jobs, next_id, now, worker, running, active_tasks, tasks,
          calls, attempts, spawned, safe_cancel, raised, last, in_memory_cache, recent>>

IdleTask == [pc |-> "idle", job |-> None, local |-> None, err |-> NoText,
             idx |-> 0, args |-> <<NoArg, NoArg, FALSE>>]
IdleCall == [pc |-> "idle", job_id |-> 0, user |-> 0, local |-> None,
             code |-> 0, success |-> FALSE, job |-> None]
DoneTask == [IdleTask EXCEPT !.pc = "done"]
NoOp == [op |-> "none"]

Init ==
    /\ store = [j \in JobIds |-> None]
    /\ expires = [j \in JobIds |-> NoTime]
    /\ queue = [ty \in JobType |-> <<>>]
    /\ user_jobs = [u \in Callers |-> <<>>]
    /\ next_id = 0
    /\ now = 0
    /\ worker = [pc |-> "reap", idx |-> 1, job_id |-> 0]
    /\ running = TRUE
    /\ in_memory_cache = [j \in JobIds |-> None]
    /\ recent = [j \in JobIds |-> None]
    /\ active_tasks = {}
    /\ tasks = [t \in TaskIds |-> IdleTask]
    /\ calls = [c \in CallIds |-> IdleCall]
    /\ attempts = [j \in JobIds |-> 0]
    /\ spawned = [j \in JobIds |-> 0]
    /\ safe_cancel = {}
    /\ raised = [j \in JobIds |-> NoText]
    /\ last = NoOp

\* ---------------------------------------------------------------- store
set_json(st, job_id, job) == [st EXCEPT ![job_id] = job]

\* the ttl argument of set_json: RedisManager.set calls setex(key, ttl, value)
setex(ex, job_id, ttl, t) == [ex EXCEPT ![job_id] = t + ttl]

\* update_job writes with job_ttl, complete_job with job_result_ttl
update_job_ttl == JobTtl

complete_job_ttl_as_update == JobTtl

complete_job_ttl == JobResultTtl

rpush_at_head(q, key, value) == [q EXCEPT ![key] = <<value>> \o @]

rpush(q, key, value) == [q EXCEPT ![key] = Append(@, value)]

lpush_at_tail(q, key, value) == [q EXCEPT ![key] = Append(@, value)]

lpush(q, key, value) == [q EXCEPT ![key] = <<value>> \o @]

\* ---------------------------------------------------------------- create_job
\* what the callers of create_job pass: job_type, total_items, metadata
Requests == {<<INGEST_FILE, 1, 1>>, <<BATCH_INGEST, MaxFiles, MaxFiles>>}

CreateJob(user_id, req, limit) ==
    /\ next_id < limit
    /\ LET job_id == next_id + 1
           job == JobData(job_id, user_id, req[1], req[2], req[3], now)
       IN /\ expires' = setex(expires, job_id, JobTtl, now)
          /\ store' = set_json(store, job_id, job)
          /\ user_jobs' = lpush(user_jobs, user_id, job_id)
          /\ queue' = rpush(queue, req[1], job_id)
          /\ next_id' = job_id
    /\ UNCHANGED <<now, kvVars, workerVars, calls, histVars, last>>

\* ---------------------------------------------------------------- JobWorker.run
\* the loop's capacity tests: `len(active_tasks) < max` before polling and
\* `len(active_tasks) >= max: break` before each queue
has_capacity_never(n) == FALSE

has_capacity(n) == n < MaxConcurrentJobs

at_capacity_off_by_one(n) == n > MaxConcurrentJobs

at_capacity(n) == n >= MaxConcurrentJobs

next_poll_same_queue(idx) == [pc |-> "poll", idx |-> idx, job_id |-> 0]

\* where the for loop over the job types goes after queue number idx
next_poll(idx) ==
    IF idx < Len(PolledTypes)
    THEN [pc |-> "poll", idx |-> idx + 1, job_id |-> 0]
    ELSE [pc |-> "reap", idx |-> 1, job_id |-> 0]

\* `except Exception` around `await task`: every exception a task can carry
\* is an Exception
reap_catches_none(err) == FALSE

reap_catches(err) == TRUE

\* where run() is once it has left the while loop
Finally == [pc |-> "gather", idx |-> 1, job_id |-> 0]

\* top of the while loop: the test of _running, reap the finished tasks, test
\* the capacity; an exception that `await task` raises and the reaping step
\* does not catch leaves the loop through `except Exception: raise`
WorkerReap ==
    /\ worker.pc = "reap"
    /\ LET done_tasks == {t \in active_tasks : tasks[t].pc = "done"}
           remaining == active_tasks \ done_tasks
       IN IF ~running \/ \E t \in done_tasks :
                            tasks[t].err /= NoText /\ ~reap_catches(tasks[t].err)
          THEN /\ worker' = Finally
               /\ UNCHANGED <<active_tasks, tasks>>
          ELSE /\ active_tasks' = remaining
               /\ tasks' = [t \in TaskIds |-> IF t \in done_tasks THEN IdleTask ELSE tasks[t]]
               /\ worker' = IF has_capacity(Cardinality(remaining))
                            THEN [pc |-> "poll", idx |-> 1, job_id |-> 0]
                            ELSE [pc |-> "reap", idx |-> 1, job_id |-> 0]
    /\ UNCHANGED <<storeVars, now, kvVars, running, calls, histVars, last>>

\* one round of the for loop: capacity test, then poll_queue(job_type)
WorkerPoll ==
    /\ worker.pc = "poll"
    /\ LET key == PolledTypes[worker.idx]
       IN IF at_capacity(Cardinality(active_tasks))
          THEN /\ worker' = [pc |-> "reap", idx |-> 1, job_id |-> 0]
               /\ queue' = queue
          ELSE IF queue[key] = <<>>
          THEN /\ worker' = next_poll(worker.idx)
               /\ queue' = queue
          ELSE /\ worker' = [worker EXCEPT !.pc = "load", !.job_id = Head(queue[key])]
               /\ queue' = [queue EXCEPT ![key] = Tail(@)]
    /\ UNCHANGED <<store, expires, user_jobs, next_id, now, kvVars, running, active_tasks, tasks,
                   calls, histVars, last>>

\* the test `job and job.status == JobStatus.PENDING` on the popped id
spawns_any(job) == job /= None

spawns(job) == job /= None /\ job.status = PENDING

free_task == CHOOSE t \in TaskIds :
                 /\ tasks[t].pc = "idle"
                 /\ \A u \in TaskIds : tasks[u].pc = "idle" => t <= u

\* get_job(job_id) of the popped id, then create_task(process_job(job)) or skip
WorkerLoad ==
    /\ worker.pc = "load"
    /\ LET job == store[worker.job_id]
       IN IF spawns(job)
          THEN /\ \E t \in TaskIds : tasks[t].pc = "idle"
               /\ tasks' = [tasks EXCEPT ![free_task] =
                               [IdleTask EXCEPT !.pc = "start_read", !.job = job]]
               /\ active_tasks' = active_tasks \cup {free_task}
               /\ spawned' = [spawned EXCEPT ![worker.job_id] = @ + 1]
          ELSE UNCHANGED <<tasks, active_tasks, spawned>>
    /\ worker' = next_poll(worker.idx)
    /\ UNCHANGED <<storeVars, now, kvVars, running, calls, attempts, safe_cancel, raised, last>>

\* stop(), called by the signal handler at any point of run()
Stop ==
    /\ running
    /\ running' = FALSE
    /\ UNCHANGED <<storeVars, now, kvVars, worker, active_tasks, tasks, calls, histVars, last>>

\* asyncio.gather(*active_tasks, return_exceptions=True) returns when every
\* task of the set is done
gather_done_never_waits(active) == TRUE

gather_done(active) == \A t \in active : tasks[t].pc = "done"

\* finally: wait for the active tasks
WorkerGather ==
    /\ worker.pc = "gather"
    /\ gather_done(active_tasks)
    /\ worker' = [worker EXCEPT !.pc = "close"]
    /\ UNCHANGED <<storeVars, now, kvVars, running, active_tasks, tasks, calls, histVars, last>>

\* finally: close_redis(), then run() returns
WorkerClose ==
    /\ worker.pc = "close"
    /\ worker' = [worker EXCEPT !.pc = "returned"]
    /\ UNCHANGED <<storeVars, now, kvVars, running, active_tasks, tasks, calls, histVars, last>>

\* ---------------------------------------------------------------- JobWorker.process_job
TaskJob(t) == tasks[t].job.job_id

\* start_job: get_job
TaskStartRead(t) ==
    /\ tasks[t].pc = "start_read"
    /\ LET job == store[TaskJob(t)]
       IN IF job = None
          THEN /\ tasks' = [tasks EXCEPT ![t].pc = "exec", ![t].local = None]
               /\ attempts' = [attempts EXCEPT ![TaskJob(t)] = @ + 1]
          ELSE /\ tasks' = [tasks EXCEPT ![t].pc = "start_write", ![t].local = job]
               /\ attempts' = attempts
    /\ UNCHANGED <<storeVars, now, kvVars, worker, running, active_tasks, calls, spawned, safe_cancel, raised, last>>

\* start_job: update_job; the executor is called next
TaskStartWrite(t) ==
    /\ tasks[t].pc = "start_write"
    /\ expires' = setex(expires, TaskJob(t), update_job_ttl, now)
    /\ store' = set_json(store, TaskJob(t), start_job(tasks[t].local, now))
    /\ tasks' = [tasks EXCEPT ![t].pc = "exec", ![t].local = None]
    /\ attempts' = [attempts EXCEPT ![TaskJob(t)] = @ + 1]
    /\ UNCHANGED <<queue, user_jobs, next_id, now, kvVars, worker, running, active_tasks, calls,
                   spawned, safe_cancel, raised, last>>

\* the exception leaves the executor: process_job's except branch is next
Raise(t, text) ==
    /\ tasks' = [tasks EXCEPT ![t].pc = "fail_read", ![t].err = text, ![t].local = None]
    /\ raised' = [raised EXCEPT ![TaskJob(t)] = text]

\* the executor up to its next store operation, its return or its exception
TaskExec(t, texts) ==
    /\ tasks[t].pc = "exec"
    /\ LET step == executor(tasks[t].job, tasks[t].idx)
       IN \/ /\ step[1] = "raise"
             /\ Raise(t, step[2])
          \/ /\ step[1] = "ingest"
             /\ \/ \E e \in texts : Raise(t, e)
                \/ /\ tasks' = [tasks EXCEPT ![t].pc = "up_read",
                                             ![t].args = <<1, NoArg, FALSE>>]
                   /\ raised' = raised
          \/ /\ step[1] = "file"
             /\ \/ tasks' = [tasks EXCEPT ![t].pc = "up_read",
                                          ![t].args = <<tasks[t].idx + 1, NoArg, FALSE>>]
                \/ tasks' = [tasks EXCEPT ![t].pc = "up_read",
                                          ![t].args = <<tasks[t].idx + 1, 1, TRUE>>]
             /\ raised' = raised
          \/ /\ step[1] = "return"
             /\ tasks' = [tasks EXCEPT ![t].pc = "complete_read"]
             /\ raised' = raised
    /\ UNCHANGED <<storeVars, now, kvVars, worker, running, active_tasks, calls, attempts, spawned,
                   safe_cancel, last>>

\* update_progress: get_job
TaskProgressRead(t) ==
    /\ tasks[t].pc = "up_read"
    /\ LET job == store[TaskJob(t)]
       IN IF job = None
          THEN tasks' = [tasks EXCEPT ![t].pc = "exec", ![t].idx = @ + 1]
          ELSE tasks' = [tasks EXCEPT ![t].pc = "up_write", ![t].local = job]
    /\ UNCHANGED <<storeVars, now, kvVars, worker, running, active_tasks, calls, histVars, last>>

TaskProgressWriteChecked(t) ==
    /\ tasks[t].pc = "up_write"
    /\ LET a == tasks[t].args
       IN IF store[TaskJob(t)] = tasks[t].local
          THEN /\ store' = set_json(store, TaskJob(t),
                                    update_progress(tasks[t].local, a[1], a[2], a[3]))
               /\ expires' = setex(expires, TaskJob(t), update_job_ttl, now)
          ELSE UNCHANGED <<store, expires>>
    /\ tasks' = [tasks EXCEPT ![t].pc = "exec", ![t].idx = @ + 1, ![t].local = None]
    /\ UNCHANGED <<queue, user_jobs, next_id, now, kvVars, worker, running, active_tasks, calls,
                   histVars, last>>

\* update_progress: update_job
TaskProgressWrite(t) ==
    /\ tasks[t].pc = "up_write"
    /\ LET a == tasks[t].args
       IN /\ store' = set_json(store, TaskJob(t),
                               update_progress(tasks[t].local, a[1], a[2], a[3]))
          /\ expires' = setex(expires, TaskJob(t), update_job_ttl, now)
    /\ tasks' = [tasks EXCEPT ![t].pc = "exec", ![t].idx = @ + 1, ![t].local = None]
    /\ UNCHANGED <<queue, user_jobs, next_id, now, kvVars, worker, running, active_tasks, calls,
                   histVars, last>>

\* complete_job: get_job
TaskCompleteRead(t) ==
    /\ tasks[t].pc = "complete_read"
    /\ LET job == store[TaskJob(t)]
       IN IF job = None
          THEN tasks' = [tasks EXCEPT ![t] = DoneTask]
          ELSE tasks' = [tasks EXCEPT ![t].pc = "complete_write", ![t].local = job]
    /\ UNCHANGED <<storeVars, now, kvVars, worker, running, active_tasks, calls, histVars, last>>

\* complete_job: set_json, then the log line that formats job.duration_seconds:
\* with started_at None the format raises and process_job goes to fail_job
TaskCompleteWrite(t) ==
    /\ tasks[t].pc = "complete_write"
    /\ LET job == complete_job(tasks[t].local, "result", now)
       IN /\ expires' = setex(expires, TaskJob(t), complete_job_ttl, now)
          /\ store' = set_json(store, TaskJob(t), job)
          /\ IF job.started_at = NoTime
             THEN Raise(t, "format_error")
             ELSE /\ tasks' = [tasks EXCEPT ![t] =
                                  DoneTask]
                  /\ raised' = raised
    /\ UNCHANGED <<queue, user_jobs, next_id, now, kvVars, worker, running, active_tasks, calls,
                   attempts, spawned, safe_cancel, last>>

\* fail_job: get_job
TaskFailRead(t) ==
    /\ tasks[t].pc = "fail_read"
    /\ LET job == store[TaskJob(t)]
       IN IF job = None
          THEN tasks' = [tasks EXCEPT ![t] = DoneTask]
          ELSE IF will_retry(job, TRUE)
          THEN tasks' = [tasks EXCEPT ![t].pc = "fail_push", ![t].local = job]
          ELSE tasks' = [tasks EXCEPT ![t].pc = "fail_write", ![t].local = job]
    /\ UNCHANGED <<storeVars, now, kvVars, worker, running, active_tasks, calls, histVars, last>>

\* fail_job: rpush(queue_key, job_id) of the retry branch
TaskFailPush(t) ==
    /\ tasks[t].pc = "fail_push"
    /\ queue' = rpush(queue, tasks[t].local.job_type, TaskJob(t))
    /\ tasks' = [tasks EXCEPT ![t].pc = "fail_write"]
    /\ UNCHANGED <<store, expires, user_jobs, next_id, now, kvVars, worker, running, active_tasks, calls,
                   histVars, last>>

\* fail_job: rpush raises an exception that is not a RedisError, the only
\* class RedisManager.rpush catches; nothing in fail_job or in process_job's
\* except branch catches it, so the task ends with it
TaskFailPushRaises(t) ==
    /\ tasks[t].pc = "fail_push"
    /\ tasks' = [tasks EXCEPT ![t] = [DoneTask EXCEPT !.err = "push_error"]]
    /\ raised' = [raised EXCEPT ![TaskJob(t)] = "push_error"]
    /\ UNCHANGED <<storeVars, now, kvVars, worker, running, active_tasks, calls, attempts,
                   spawned, safe_cancel, last>>

\* fail_job: update_job
TaskFailWrite(t) ==
    /\ tasks[t].pc = "fail_write"
    /\ expires' = setex(expires, TaskJob(t), update_job_ttl, now)
    /\ store' = set_json(store, TaskJob(t), fail_job(tasks[t].local, tasks[t].err, TRUE, now))
    /\ tasks' = [tasks EXCEPT ![t] = DoneTask]
    /\ UNCHANGED <<queue, user_jobs, next_id, now, kvVars, worker, running, active_tasks, calls,
                   histVars, last>>

\* ---------------------------------------------------------------- POST /jobs/{id}/cancel
Respond(c, job_id, user_id, code, success, job) ==
    [calls EXCEPT ![c] = [pc |-> "done", job_id |-> job_id, user |-> user_id,
                          local |-> None, code |-> code, success |-> success,
                          job |-> job]]

\* the endpoint's answer when cancel_job has returned updated_job
cancel_response(updated_job) ==
    IF updated_job = None THEN <<500, FALSE>> ELSE <<200, TRUE>>

\* the request arrives: get_job, 404, 403, the is_terminal test
CancelCheck(c, job_id, user_id) ==
    /\ calls[c].pc = "idle"
    /\ \A d \in CallIds : d < c => calls[d].pc /= "idle"
    /\ LET job == store[job_id]
       IN calls' =
            IF job = None THEN Respond(c, job_id, user_id, 404, FALSE, None)
            ELSE IF job.user_id /= user_id THEN Respond(c, job_id, user_id, 403, FALSE, None)
            ELSE IF is_terminal(job) THEN Respond(c, job_id, user_id, 200, FALSE, job)
            ELSE [calls EXCEPT ![c].pc = "cj_read", ![c].job_id = job_id,
                               ![c].user = user_id]
    /\ UNCHANGED <<storeVars, now, kvVars, workerVars, histVars, last>>

\* cancel_job: get_job and the is_terminal test
CancelJobRead(c) ==
    /\ calls[c].pc = "cj_read"
    /\ LET job == store[calls[c].job_id]
       IN calls' =
            IF job = None \/ ~cancel_writes(job)
            THEN Respond(c, calls[c].job_id, calls[c].user,
                         cancel_response(job)[1], cancel_response(job)[2], job)
            ELSE [calls EXCEPT ![c].pc = "cj_write", ![c].local = job]
    /\ UNCHANGED <<storeVars, now, kvVars, workerVars, histVars, last>>

\* a job is out of the worker's hands: no task holds it, the loop has not popped it
has_task(job_id) ==
    \E t \in TaskIds : tasks[t].pc \notin {"idle", "done"} /\ tasks[t].job.job_id = job_id

in_flight(job_id) ==
    \/ has_task(job_id)
    \/ worker.pc = "load" /\ worker.job_id = job_id

queued(job_id) == \E ty \in JobType : \E i \in 1..Len(queue[ty]) : queue[ty][i] = job_id

\* cancel_job: update_job
CancelJobWrite(c) ==
    /\ calls[c].pc = "cj_write"
    /\ LET job_id == calls[c].job_id
           job == cancel_job(calls[c].local, now)
       IN /\ expires' = setex(expires, job_id, update_job_ttl, now)
          /\ store' = set_json(store, job_id, job)
          /\ calls' = Respond(c, job_id, calls[c].user,
                              cancel_response(job)[1], cancel_response(job)[2], job)
          /\ safe_cancel' =
               IF store[job_id] /= None /\ store[job_id].status = PENDING
                  /\ queued(job_id) /\ ~in_flight(job_id)
               THEN safe_cancel \cup {job_id} ELSE safe_cancel
    /\ UNCHANGED <<queue, user_jobs, next_id, now, kvVars, workerVars, attempts, spawned, raised, last>>

\* ---------------------------------------------------------------- specification
Next ==
    \/ \E u \in Users, req \in Requests : CreateJob(u, req, MaxJobs)
    \/ WorkerReap
    \/ WorkerPoll
    \/ WorkerLoad
    \/ \E t \in TaskIds : TaskStartRead(t)
    \/ \E t \in TaskIds : TaskStartWrite(t)
    \/ \E t \in TaskIds : TaskExec(t, {"err_a"})
    \/ \E t \in TaskIds : TaskProgressRead(t)
    \/ \E t \in TaskIds : TaskProgressWrite(t)
    \/ \E t \in TaskIds : TaskCompleteRead(t)
    \/ \E t \in TaskIds : TaskCompleteWrite(t)
    \/ \E t \in TaskIds : TaskFailRead(t)
    \/ \E t \in TaskIds : TaskFailPush(t)
    \/ \E t \in TaskIds : TaskFailWrite(t)
    \/ \E c \in CallIds, j \in 1..next_id, u \in Users : CancelCheck(c, j, u)
    \/ \E c \in CallIds : CancelJobRead(c)
    \/ \E c \in CallIds : CancelJobWrite(c)

Spec == Init /\ [][Next]_vars

\* ---------------------------------------------------------------- SpecOps
\* The orchestrator's operations and the cancel endpoint, each called whole on
\* the store, in any order, by one caller at a time. last names the operation
\* that was called, the id it was called with and what it answered: <<found>>
\* for an orchestrator operation (FALSE: it returned None, TRUE: it returned
\* the record now stored), <<status code, success>> for the endpoint.
Called(op, job_id, ret) == [op |-> op, job_id |-> job_id, ret |-> ret]

OpsFrame == UNCHANGED <<workerVars, calls, histVars>>

OpCreateJob(user_id, job_type, total_items) ==
    /\ next_id < MaxOpsJobs
    /\ LET job_id == next_id + 1
           job == JobData(job_id, user_id, job_type, total_items, 1, now)
       IN /\ expires' = setex(expires, job_id, JobTtl, now)
          /\ store' = set_json(store, job_id, job)
          /\ user_jobs' = lpush(user_jobs, user_id, job_id)
          /\ queue' = rpush(queue, job_type, job_id)
          /\ next_id' = job_id
          /\ last' = Called("create_job", job_id, <<TRUE>>)
    /\ UNCHANGED <<now, kvVars>>
    /\ OpsFrame

\* an operation that found no record: returns None, writes nothing
NotFoundCreates(op, job_id) ==
    /\ store[job_id] = None
    /\ expires' = setex(expires, job_id, JobTtl, now)
    /\ store' = set_json(store, job_id, JobData(job_id, 1, INGEST_FILE, 1, 1, now))
    /\ last' = Called(op, job_id, <<FALSE>>)
    /\ UNCHANGED <<queue, user_jobs, next_id, now, kvVars>>
    /\ OpsFrame

NotFound(op, job_id) ==
    /\ store[job_id] = None
    /\ last' = Called(op, job_id, <<FALSE>>)
    /\ UNCHANGED <<storeVars, now, kvVars>>
    /\ OpsFrame

OpStartJob(job_id) ==
    \/ NotFound("start_job", job_id)
    \/ /\ store[job_id] /= None
       /\ expires' = setex(expires, job_id, update_job_ttl, now)
       /\ store' = set_json(store, job_id, start_job(store[job_id], now))
       /\ last' = Called("start_job", job_id, <<TRUE>>)
       /\ UNCHANGED <<queue, user_jobs, next_id, now, kvVars>>
       /\ OpsFrame

OpUpdateProgress(job_id, processed_items, failed_items, increment) ==
    \/ NotFound("update_progress", job_id)
    \/ /\ store[job_id] /= None
       /\ LET job == update_progress(store[job_id], processed_items, failed_items, increment)
          IN /\ job.processed_items <= MaxCount
             /\ job.failed_items <= MaxFailedCount
             /\ expires' = setex(expires, job_id, update_job_ttl, now)
             /\ store' = set_json(store, job_id, job)
       /\ last' = Called("update_progress", job_id, <<TRUE>>)
       /\ UNCHANGED <<queue, user_jobs, next_id, now, kvVars>>
       /\ OpsFrame

\* after the write, the log line formats job.duration_seconds, which is None
\* for a record never started: the call then raises TypeError
OpCompleteJob(job_id) ==
    \/ NotFound("complete_job", job_id)
    \/ /\ store[job_id] /= None
       /\ expires' = setex(expires, job_id, complete_job_ttl, now)
       /\ store' = set_json(store, job_id, complete_job(store[job_id], "result", now))
       /\ last' = Called("complete_job", job_id,
                         IF store[job_id].started_at = NoTime
                         THEN <<TRUE, "raised", "TypeError">> ELSE <<TRUE>>)
       /\ UNCHANGED <<queue, user_jobs, next_id, now, kvVars>>
       /\ OpsFrame

OpFailJob(job_id, error_message, should_retry) ==
    \/ NotFound("fail_job", job_id)
    \/ /\ store[job_id] /= None
       /\ store[job_id].retry_count <= MaxRetries
       /\ queue' = IF will_retry(store[job_id], should_retry)
                   THEN rpush(queue, store[job_id].job_type, job_id)
                   ELSE queue
       /\ expires' = setex(expires, job_id, update_job_ttl, now)
       /\ store' = set_json(store, job_id,
                            fail_job(store[job_id], error_message, should_retry, now))
       /\ last' = Called("fail_job", job_id, <<TRUE>>)
       /\ UNCHANGED <<user_jobs, next_id, now, kvVars>>
       /\ OpsFrame

OpCancelJob(job_id) ==
    \/ NotFound("cancel_job", job_id)
    \/ /\ store[job_id] /= None
       /\ ~cancel_writes(store[job_id])
       /\ last' = Called("cancel_job", job_id, <<TRUE>>)
       /\ UNCHANGED <<storeVars, now, kvVars>>
       /\ OpsFrame
    \/ /\ store[job_id] /= None
       /\ cancel_writes(store[job_id])
       /\ expires' = setex(expires, job_id, update_job_ttl, now)
       /\ store' = set_json(store, job_id, cancel_job(store[job_id], now))
       /\ last' = Called("cancel_job", job_id, <<TRUE>>)
       /\ UNCHANGED <<queue, user_jobs, next_id, now, kvVars>>
       /\ OpsFrame

\* POST /jobs/{id}/cancel as one call
OpCancelEndpoint(job_id, user_id) ==
    LET job == store[job_id]
    IN \/ /\ job = None
          /\ last' = Called("cancel_endpoint", job_id, <<404, FALSE>>)
          /\ UNCHANGED <<storeVars, now, kvVars>>
          /\ OpsFrame
       \/ /\ job /= None
          /\ job.user_id /= user_id
          /\ last' = Called("cancel_endpoint", job_id, <<403, FALSE>>)
          /\ UNCHANGED <<storeVars, now, kvVars>>
          /\ OpsFrame
       \/ /\ job /= None
          /\ job.user_id = user_id
          /\ is_terminal(job)
          /\ last' = Called("cancel_endpoint", job_id, <<200, FALSE>>)
          /\ UNCHANGED <<storeVars, now, kvVars>>
          /\ OpsFrame
       \/ /\ job /= None
          /\ job.user_id = user_id
          /\ ~is_terminal(job)
          /\ expires' = setex(expires, job_id, update_job_ttl, now)
          /\ store' = set_json(store, job_id, cancel_job(job, now))
          /\ last' = Called("cancel_endpoint", job_id, cancel_response(cancel_job(job, now)))
          /\ UNCHANGED <<queue, user_jobs, next_id, now, kvVars>>
          /\ OpsFrame

OpGetJob(job_id) ==
    \/ NotFound("get_job", job_id)
    \/ /\ store[job_id] /= None
       /\ last' = Called("get_job", job_id, <<TRUE>>)
       /\ UNCHANGED <<storeVars, now, kvVars>>
       /\ OpsFrame

\* the endpoints' authorization test: the record is not the caller's
forbidden_never(job, user_id) == FALSE

forbidden(job, user_id) == job.user_id /= user_id

\* GET /jobs/{id}: <<status code, job detail returned>>
OpGetEndpoint(job_id, user_id) ==
    LET job == store[job_id]
    IN /\ last' = Called("get_endpoint", job_id,
                         IF job = None THEN <<404, FALSE>>
                         ELSE IF forbidden(job, user_id) THEN <<403, FALSE>>
                         ELSE <<200, TRUE>>)
       /\ UNCHANGED <<storeVars, now, kvVars>>
       /\ OpsFrame

\* RedisManager.delete of the key job:{id}
delete(st, job_id) == [st EXCEPT ![job_id] = None]

\* DELETE /jobs/{id}: only a terminal record may be deleted
deletable_unless_processing(job) == job.status /= PROCESSING

deletable(job) == is_terminal(job)

\* DELETE /jobs/{id}: <<status code, deleted>>
OpDeleteEndpoint(job_id, user_id) ==
    LET job == store[job_id]
    IN /\ IF job = None
          THEN /\ last' = Called("delete_endpoint", job_id, <<404, FALSE>>)
               /\ UNCHANGED <<store, expires>>
          ELSE IF forbidden(job, user_id)
          THEN /\ last' = Called("delete_endpoint", job_id, <<403, FALSE>>)
               /\ UNCHANGED <<store, expires>>
          ELSE IF ~deletable(job)
          THEN /\ last' = Called("delete_endpoint", job_id, <<400, FALSE>>)
               /\ UNCHANGED <<store, expires>>
          ELSE /\ last' = Called("delete_endpoint", job_id, <<204, TRUE>>)
               /\ store' = delete(store, job_id)
               /\ expires' = [expires EXCEPT ![job_id] = NoTime]
       /\ UNCHANGED <<queue, user_jobs, next_id, now, kvVars>>
       /\ OpsFrame

\* create_job while every Redis command fails: RedisManager.set logs the
\* error, keeps the value in the process-local fallback dict and returns
\* False, lpush and rpush log it and return 0; create_job looks at none of
\* the three results and returns the job
OpCreateJobUnavailable(user_id, job_type, total_items) ==
    /\ next_id < MaxOpsJobs
    /\ next_id' = next_id + 1
    /\ LET job == JobData(next_id + 1, user_id, job_type, total_items, 1, now)
       IN /\ in_memory_cache' = [in_memory_cache EXCEPT ![next_id + 1] = job]
          /\ recent' = [recent EXCEPT ![next_id + 1] = job]
    /\ last' = Called("create_job", next_id + 1, <<TRUE>>)
    /\ UNCHANGED <<store, expires, queue, user_jobs, now>>
    /\ OpsFrame

\* RedisManager.lrange: end is inclusive, -1 is the last element
lrange(list, start, end) ==
    LET stop == IF end = -1 \/ end + 1 > Len(list) THEN Len(list) ELSE end + 1
    IN SubSeq(list, start + 1, stop)

NoFilter == "null"

list_user_jobs_keeps_absent(st, uj, user_id, limit, status_filter) ==
    LET job_ids == lrange(uj[user_id], 0, limit - 1)
        kept(job_id) == st[job_id] = None \/ status_filter = NoFilter
                        \/ st[job_id].status = status_filter
    IN SelectSeq(job_ids, kept)

\* list_user_jobs: the ids of the records it returns, in order
list_user_jobs(st, uj, user_id, limit, status_filter) ==
    LET job_ids == lrange(uj[user_id], 0, limit - 1)
        kept(job_id) == /\ st[job_id] /= None
                        /\ (status_filter = NoFilter \/ st[job_id].status = status_filter)
    IN SelectSeq(job_ids, kept)

OpListUserJobs(user_id, limit, status_filter) ==
    /\ last' = Called("list_user_jobs", 0,
                      list_user_jobs(store, user_jobs, user_id, limit, status_filter))
    /\ UNCHANGED <<storeVars, now, kvVars>>
    /\ OpsFrame

\* cleanup_old_jobs: the test on one scanned record
cleanup_deletes_any_status(job, cutoff_time) ==
    /\ job.completed_at /= NoTime
    /\ job.completed_at < cutoff_time

cleanup_deletes(job, cutoff_time) ==
    /\ job.completed_at /= NoTime
    /\ job.status \in {COMPLETED, FAILED, CANCELLED}
    /\ job.completed_at < cutoff_time

\* cleanup_old_jobs(max_age_hours), one unit of now being an hour
OpCleanupOldJobs(max_age_hours) ==
    LET cutoff_time == now - max_age_hours
        cleaned == {j \in JobIds : store[j] /= None /\ cleanup_deletes(store[j], cutoff_time)}
    IN /\ store' = [j \in JobIds |-> IF j \in cleaned THEN None ELSE store[j]]
       /\ expires' = [j \in JobIds |-> IF j \in cleaned THEN NoTime ELSE expires[j]]
       /\ last' = Called("cleanup_old_jobs", 0, <<Cardinality(cleaned)>>)
       /\ UNCHANGED <<queue, user_jobs, next_id, now, kvVars>>
       /\ OpsFrame

\* a key whose ttl has run out at time t is gone
expired(ex, job_id, t) == ex[job_id] /= NoTime /\ ex[job_id] <= t

\* time passes between calls; Redis drops the keys whose ttl has run out
Tick ==
    /\ now < MaxTime
    /\ now' = now + 1
    /\ store' = [j \in JobIds |-> IF expired(expires, j, now + 1) THEN None ELSE store[j]]
    /\ expires' = [j \in JobIds |-> IF expired(expires, j, now + 1) THEN NoTime ELSE expires[j]]
    /\ last' = Called("tick", 0, <<>>)
    /\ UNCHANGED <<queue, user_jobs, next_id, kvVars>>
    /\ OpsFrame

OpsJobType == {INGEST_FILE, REINDEX}
OpsJobIds == 1..MaxOpsJobs
ProgressArgs == {NoArg, 1, MaxItems + 1}
FailedArgs == {NoArg, 1}
Limits == {0, 1, MaxOpsJobs + 1}
Filters == {NoFilter, PENDING, COMPLETED}
MaxAges == {0, MaxTime}

NextOps ==
    \/ \E u \in Users, ty \in OpsJobType, n \in {0, MaxItems} : OpCreateJob(u, ty, n)
    \/ \E j \in OpsJobIds : OpStartJob(j)
    \/ \E j \in OpsJobIds, p \in ProgressArgs, f \in FailedArgs, inc \in BOOLEAN :
           OpUpdateProgress(j, p, f, inc)
    \/ \E j \in OpsJobIds : OpCompleteJob(j)
    \/ \E j \in OpsJobIds, e \in ErrMsgs, r \in BOOLEAN : OpFailJob(j, e, r)
    \/ \E j \in OpsJobIds : OpCancelJob(j)
    \/ \E j \in OpsJobIds, u \in Callers : OpCancelEndpoint(j, u)
    \/ \E j \in OpsJobIds : OpGetJob(j)
    \/ \E j \in OpsJobIds, u \in Callers : OpGetEndpoint(j, u)
    \/ \E j \in OpsJobIds, u \in Callers : OpDeleteEndpoint(j, u)
    \/ \E u \in Users, ty \in OpsJobType, n \in {0, MaxItems} :
           OpCreateJobUnavailable(u, ty, n)
    \/ \E u \in Users, l \in Limits, f \in Filters : OpListUserJobs(u, l, f)
    \/ \E a \in MaxAges : OpCleanupOldJobs(a)
    \/ Tick

SpecOps == Init /\ [][NextOps]_vars

\* ---------------------------------------------------------------- SpecRetry
\* Every executor call raises, nobody cancels or deletes; the event loop runs
\* every ready coroutine, so the loop and each task are scheduled fairly.
RaisingRequests == {<<INGEST_FILE, 1, 1>>, <<INGEST_TEXT, 1, 1>>, <<BATCH_INGEST, 1, 0>>}

TaskExecRaises(t) == TaskExec(t, ErrMsgs) /\ tasks'[t].pc = "fail_read"

WorkerStep == WorkerReap \/ WorkerPoll \/ WorkerLoad

TaskStep(t) ==
    \/ TaskStartRead(t)
    \/ TaskStartWrite(t)
    \/ TaskExecRaises(t)
    \/ TaskFailRead(t)
    \/ TaskFailPush(t)
    \/ TaskFailWrite(t)

NextRetry ==
    \/ \E u \in Users, req \in RaisingRequests : CreateJob(u, req, MaxJobs)
    \/ WorkerStep
    \/ \E t \in TaskIds : TaskStep(t)

SpecRetry ==
    /\ Init
    /\ [][NextRetry]_vars
    /\ WF_vars(WorkerStep)
    /\ \A t \in TaskIds : WF_vars(TaskStep(t))

\* ---------------------------------------------------------------- SpecLoad
\* The worker pool alone under more jobs than it has slots, of every polled type.
LoadRequests == {<<INGEST_FILE, 1, 1>>, <<INGEST_TEXT, 1, 1>>, <<BATCH_INGEST, 1, 1>>}

NextLoad ==
    \/ \E u \in Users, req \in LoadRequests : CreateJob(u, req, MaxLoadJobs)
    \/ WorkerReap
    \/ WorkerPoll
    \/ WorkerLoad
    \/ \E t \in TaskIds : TaskStartRead(t)
    \/ \E t \in TaskIds : TaskStartWrite(t)
    \/ \E t \in TaskIds : TaskExec(t, {"err_a"})
    \/ \E t \in TaskIds : TaskProgressRead(t)
    \/ \E t \in TaskIds : TaskProgressWrite(t)
    \/ \E t \in TaskIds : TaskCompleteRead(t)
    \/ \E t \in TaskIds : TaskCompleteWrite(t)
    \/ \E t \in TaskIds : TaskFailRead(t)
    \/ \E t \in TaskIds : TaskFailPush(t)
    \/ \E t \in TaskIds : TaskFailWrite(t)

SpecLoad == Init /\ [][NextLoad]_vars

\* ---------------------------------------------------------------- SpecFault
\* Spec with a Redis client whose rpush can raise inside fail_job.
NextFault ==
    \/ Next
    \/ \E t \in TaskIds : TaskFailPushRaises(t)

SpecFault == Init /\ [][NextFault]_vars

\* ---------------------------------------------------------------- SpecStop
\* The worker pool with a shutdown signal: stop() at any point, then the
\* finally block of run(). The event loop runs every task and the worker that
\* can take a step.
TaskRun(t) ==
    \/ TaskStartRead(t)
    \/ TaskStartWrite(t)
    \/ TaskExec(t, {"err_a"})
    \/ TaskProgressRead(t)
    \/ TaskProgressWrite(t)
    \/ TaskCompleteRead(t)
    \/ TaskCompleteWrite(t)
    \/ TaskFailRead(t)
    \/ TaskFailPush(t)
    \/ TaskFailWrite(t)

WorkerRun == WorkerReap \/ WorkerPoll \/ WorkerLoad \/ WorkerGather \/ WorkerClose

NextStop ==
    \/ \E u \in Users, req \in LoadRequests : CreateJob(u, req, MaxJobs)
    \/ Stop
    \/ WorkerRun
    \/ \E t \in TaskIds : TaskRun(t)

SpecStop ==
    /\ Init
    /\ [][NextStop]_vars
    /\ WF_vars(WorkerRun)
    /\ \A t \in TaskIds : WF_vars(TaskRun(t))

\* ---------------------------------------------------------------- SpecBatch
\* The worker pool with batch jobs of several files and of none.
BatchRequests == {<<BATCH_INGEST, MaxItems, MaxItems>>, <<BATCH_INGEST, 0, 0>>}

NextBatch ==
    \/ \E u \in Users, req \in BatchRequests : CreateJob(u, req, MaxJobs)
    \/ WorkerStep
    \/ \E t \in TaskIds : TaskRun(t)

SpecBatch == Init /\ [][NextBatch]_vars

\* ---------------------------------------------------------------- SpecHappy
\* The worker pool with executors that always return, no cancel, no delete:
\* process_job never enters its except branch.
TaskReturns(t) ==
    \/ TaskStartRead(t)
    \/ TaskStartWrite(t)
    \/ TaskExec(t, {})
    \/ TaskProgressRead(t)
    \/ TaskProgressWrite(t)
    \/ TaskCompleteRead(t)
    \/ TaskCompleteWrite(t)

NextHappy ==
    \/ \E u \in Users, req \in LoadRequests : CreateJob(u, req, MaxJobs)
    \/ WorkerStep
    \/ \E t \in TaskIds : TaskReturns(t)

SpecHappy ==
    /\ Init
    /\ [][NextHappy]_vars
    /\ WF_vars(WorkerStep)
    /\ \A t \in TaskIds : WF_vars(TaskReturns(t))

\* ---------------------------------------------------------------- SpecList
\* Two users who create jobs, records that go away by DELETE and by expiry,
\* and the history lists read in between.
NextList ==
    \/ \E u \in Callers : CreateJob(u, <<INGEST_FILE, 1, 1>>, MaxLoadJobs)
    \/ \E j \in JobIds : OpCompleteJob(j)
    \/ \E j \in JobIds, u \in Callers : OpDeleteEndpoint(j, u)
    \/ \E u \in Callers, l \in Limits, f \in Filters : OpListUserJobs(u, l, f)
    \/ Tick

SpecList == Init /\ [][NextList]_vars

\* ---------------------------------------------------------------- SpecKV
\* RedisManager.get / set / delete on the job keys, each call with a backend
\* that answers (ok) or raises (~ok).
KvKeys == 1..MaxJobs

KvValues(key) ==
    {JobData(key, 1, INGEST_FILE, 1, 1, 0), start_job(JobData(key, 1, INGEST_FILE, 1, 1, 0), 0)}

\* get: the backend's value, the in-memory copy when the backend raises
get(st, cache, key, ok) == IF ok THEN st[key] ELSE cache[key]

ManagerGet(key, ok) ==
    /\ last' = Called("get", key, <<get(store, in_memory_cache, key, ok)>>)
    /\ UNCHANGED <<storeVars, now, kvVars>>
    /\ OpsFrame

\* set: setex on the backend; when it raises the value goes to the in-memory
\* copy instead and the call returns False
ManagerSet(key, value, ok) ==
    /\ IF ok
       THEN /\ store' = set_json(store, key, value)
            /\ expires' = setex(expires, key, JobTtl, now)
            /\ UNCHANGED in_memory_cache
       ELSE /\ in_memory_cache' = [in_memory_cache EXCEPT ![key] = value]
            /\ UNCHANGED <<store, expires>>
    /\ recent' = [recent EXCEPT ![key] = value]
    /\ last' = Called("set", key, <<ok>>)
    /\ UNCHANGED <<queue, user_jobs, next_id, now>>
    /\ OpsFrame

\* delete: the backend's key and the in-memory copy; when the backend raises
\* nothing is removed and the call returns False
ManagerDelete(key, ok) ==
    /\ IF ok
       THEN /\ store' = delete(store, key)
            /\ expires' = [expires EXCEPT ![key] = NoTime]
            /\ in_memory_cache' = [in_memory_cache EXCEPT ![key] = None]
            /\ recent' = [recent EXCEPT ![key] = None]
       ELSE UNCHANGED <<store, expires, in_memory_cache, recent>>
    /\ last' = Called("delete", key, <<ok>>)
    /\ UNCHANGED <<queue, user_jobs, next_id, now>>
    /\ OpsFrame

NextKV ==
    \/ \E key \in KvKeys, ok \in BOOLEAN : ManagerGet(key, ok)
    \/ \E key \in KvKeys, ok \in BOOLEAN : \E value \in KvValues(key) : ManagerSet(key, value, ok)
    \/ \E key \in KvKeys, ok \in BOOLEAN : ManagerDelete(key, ok)

SpecKV == Init /\ [][NextKV]_vars

\* ---------------------------------------------------------------- SpecDelete
\* One job, its task, and POST /jobs/{id}/cancel and DELETE /jobs/{id} called
\* while the task runs.
NextDelete ==
    \/ \E u \in Users : CreateJob(u, <<INGEST_FILE, 1, 1>>, MaxOpsJobs)
    \/ WorkerStep
    \/ \E t \in TaskIds : TaskRun(t)
    \/ \E c \in CallIds, j \in 1..next_id, u \in Users : CancelCheck(c, j, u)
    \/ \E c \in CallIds : CancelJobRead(c)
    \/ \E c \in CallIds : CancelJobWrite(c)
    \/ \E j \in OpsJobIds, u \in Users : OpDeleteEndpoint(j, u)

SpecDelete == Init /\ [][NextDelete]_vars

\* ---------------------------------------------------------------- SpecDrain
\* A running worker and jobs of a polled and of an unpolled type.
DrainRequests == {<<INGEST_FILE, 1, 1>>, <<REINDEX, 1, 1>>}

NextDrain ==
    \/ \E u \in Users, req \in DrainRequests : CreateJob(u, req, MaxJobs)
    \/ WorkerStep
    \/ \E t \in TaskIds : TaskRun(t)

SpecDrain ==
    /\ Init
    /\ [][NextDrain]_vars
    /\ WF_vars(WorkerStep)
    /\ \A t \in TaskIds : WF_vars(TaskRun(t))

\* ---------------------------------------------------------------- claims
Exists(j) == store[j] /= None
Running == {t \in TaskIds : tasks[t].pc \notin {"idle", "done"}}

AllowedEdges ==
    {<<PENDING, PROCESSING>>, <<PROCESSING, COMPLETED>>, <<PROCESSING, PENDING>>,
     <<PROCESSING, FAILED>>, <<PENDING, CANCELLED>>, <<PROCESSING, CANCELLED>>}

\* C1: every change of a job's stored status is one of the six edges of the
\* state machine, in every interleaving of the worker pool and the API.
C1_OnlyListedEdges ==
    [][\A j \in JobIds :
          (Exists(j) /\ store'[j] /= None /\ store'[j].status /= store[j].status)
              => <<store[j].status, store'[j].status>> \in AllowedEdges]_vars

\* C2: once the stored status of a job is completed, failed or cancelled, no
\* later step changes it.
C2_TerminalAbsorbing ==
    [][\A j \in JobIds :
          (Exists(j) /\ is_terminal(store[j]) /\ store'[j] /= None)
              => store'[j].status = store[j].status]_vars

\* C3: the number of spawned, not yet finished process_job tasks never
\* exceeds max_concurrent_jobs.
C3_ConcurrencyCeiling ==
    /\ Cardinality(Running) <= MaxConcurrentJobs
    /\ Cardinality(active_tasks) <= MaxConcurrentJobs

\* the ceiling is reached while another pending job waits in a queue
C3_Witness ==
    /\ Cardinality(Running) = MaxConcurrentJobs
    /\ \E ty \in JobType :
          /\ queue[ty] /= <<>>
          /\ Exists(Head(queue[ty]))
          /\ store[Head(queue[ty])].status = PENDING

\* C4: fail_job on an existing job adds exactly 1 to retry_count and stores
\* error_message; with should_retry and the new retry_count <= max_retries it
\* sets pending, keeps created_at and completed_at and appends the id once to
\* queue:{job_type}; otherwise it sets failed and completed_at = now and
\* leaves every queue alone.
C4_FailJob ==
    [][\A j \in JobIds, e \in ErrMsgs, r \in BOOLEAN :
          (Exists(j) /\ last'.op = "fail_job" /\ OpFailJob(j, e, r)) =>
             /\ store'[j].retry_count = store[j].retry_count + 1
             /\ store'[j].error_message = e
             /\ IF r /\ store'[j].retry_count <= store'[j].max_retries
                THEN /\ store'[j].status = PENDING
                     /\ store'[j].created_at = store[j].created_at
                     /\ store'[j].completed_at = store[j].completed_at
                     /\ queue' = [queue EXCEPT ![store[j].job_type] = Append(@, j)]
                ELSE /\ store'[j].status = FAILED
                     /\ store'[j].completed_at = now
                     /\ queue' = queue]_vars

\* fail_job has reset a job to pending at a time later than its creation
C4_Witness ==
    /\ last.op = "fail_job"
    /\ last.ret = <<TRUE>>
    /\ store[last.job_id].status = PENDING
    /\ store[last.job_id].retry_count = store[last.job_id].max_retries
    /\ store[last.job_id].created_at < now

FailedForGood(j) ==
    /\ store[j].status = FAILED
    /\ store[j].retry_count = store[j].max_retries + 1
    /\ store[j].error_message = raised[j]

\* C5: when every executor call raises and nobody cancels, a created job
\* eventually is failed with retry_count = max_retries + 1 and the text of
\* the last exception, and stays so.
C5_EventuallyFailed ==
    \A j \in JobIds : [](Exists(j) => <>[]FailedForGood(j))

\* C6: no job is handed to an executor more than max_retries + 1 times.
C6_RetryBudget ==
    \A j \in JobIds : Exists(j) => attempts[j] <= store[j].max_retries + 1

\* C7: progress is in [0,1] for every record, and right after complete_job
\* the record is completed with processed_items = total_items.
C7_ProgressRange ==
    /\ \A j \in JobIds : Exists(j) =>
          /\ 0 <= progress(store[j])[1]
          /\ progress(store[j])[1] <= progress(store[j])[2]
          /\ 0 < progress(store[j])[2]
    /\ (last.op = "complete_job" /\ Exists(last.job_id)) =>
          /\ store[last.job_id].status = COMPLETED
          /\ store[last.job_id].processed_items = store[last.job_id].total_items

\* a record whose stored count is beyond its total
C7_Witness ==
    \E j \in JobIds :
       /\ Exists(j)
       /\ store[j].total_items > 0
       /\ store[j].processed_items > store[j].total_items
       /\ last.op = "update_progress"

C9_SuccessMeansCancelled ==
    \A c \in CallIds :
       (calls[c].pc = "done" /\ calls[c].success) => calls[c].job.status = CANCELLED

\* C10: a popped id whose record is absent or not pending is dropped with no
\* task, no write and no requeue; a job cancelled while pending with its id
\* still queued is never executed and stays cancelled.
C10_NonPendingDropped ==
    /\ [](\A j \in safe_cancel :
             /\ ~has_task(j)
             /\ Exists(j) => store[j].status = CANCELLED)
    /\ [][(worker.pc = "load" /\ worker'.pc /= "load"
           /\ (store[worker.job_id] = None \/ store[worker.job_id].status /= PENDING))
            => /\ tasks' = tasks
               /\ active_tasks' = active_tasks
               /\ store' = store
               /\ queue' = queue
               /\ attempts' = attempts]_vars

\* the id of a job cancelled while pending has been popped and dropped
C10_Witness ==
    \E j \in safe_cancel :
       /\ ~queued(j)
       /\ ~(worker.pc = "load" /\ worker.job_id = j)

\* a cancel request has been answered success = true with job j stored cancelled
CancelStored(j) ==
    \E c \in CallIds :
       /\ calls[c].pc = "done"
       /\ calls[c].success
       /\ calls[c].job_id = j
       /\ calls[c].job.status = CANCELLED

\* C11: once cancel_job has stored status = cancelled for a job, the worker
\* spawns no task for that job again, also when an attempt was in flight.
C11_NoSpawnAfterCancel ==
    [][\A j \in JobIds : CancelStored(j) => spawned'[j] = spawned[j]]_vars

\* the value update_progress leaves in a counter
Counted(old, arg, increment) ==
    IF arg = NoArg THEN old ELSE IF increment THEN old + arg ELSE arg

\* C12: update_progress sets the supplied counts, or adds them with
\* increment, leaves a counter whose parameter is left out, and changes no
\* other field, record, list or queue.
C12_UpdateProgress ==
    [][\A j \in OpsJobIds, p \in ProgressArgs, f \in FailedArgs, inc \in BOOLEAN :
          (Exists(j) /\ last'.op = "update_progress" /\ OpUpdateProgress(j, p, f, inc)) =>
             /\ store'[j].processed_items = Counted(store[j].processed_items, p, inc)
             /\ store'[j].failed_items = Counted(store[j].failed_items, f, inc)
             /\ [store'[j] EXCEPT !.processed_items = 0, !.failed_items = 0]
                   = [store[j] EXCEPT !.processed_items = 0, !.failed_items = 0]
             /\ \A k \in JobIds \ {j} : store'[k] = store[k]
             /\ UNCHANGED <<queue, user_jobs>>]_vars

\* increments have brought a job that was never started to its total, with a
\* failed item counted, and complete_job has then stored it as completed
C12_Witness ==
    /\ last.op = "complete_job"
    /\ Exists(last.job_id)
    /\ store[last.job_id].started_at = NoTime
    /\ store[last.job_id].total_items = MaxItems
    /\ store[last.job_id].processed_items = MaxItems
    /\ store[last.job_id].failed_items = 1

OrchestratorOps ==
    {"get_job", "start_job", "update_progress", "complete_job", "fail_job", "cancel_job"}

\* C17: get_job, start_job, update_progress, complete_job, fail_job and
\* cancel_job on an id without a record return absent, raise nothing, create
\* no record and leave every record, history list and queue unchanged.
C17_AbsentIsNoop ==
    [][\A j \in OpsJobIds :
          (/\ ~Exists(j)
           /\ last'.op \in OrchestratorOps
           /\ \/ OpGetJob(j)
              \/ OpStartJob(j)
              \/ \E p \in ProgressArgs, f \in FailedArgs, inc \in BOOLEAN :
                    OpUpdateProgress(j, p, f, inc)
              \/ OpCompleteJob(j)
              \/ \E e \in ErrMsgs, r \in BOOLEAN : OpFailJob(j, e, r)
              \/ OpCancelJob(j))
          => /\ last'.ret = <<FALSE>>
             /\ UNCHANGED storeVars]_vars

\* an operation other than get_job was called on the id of a deleted record
C17_Witness ==
    /\ last.op \in OrchestratorOps \ {"get_job"}
    /\ last.ret = <<FALSE>>
    /\ last.job_id <= next_id
    /\ ~Exists(last.job_id)

\* C18: GET, POST cancel and DELETE on /jobs/{id} answer 404 for an absent
\* job and 403 for a job of another user, with no job detail and the store
\* unchanged.
C18_OwnerOnly ==
    [][\A j \in OpsJobIds, u \in Callers :
          (/\ last'.op \in {"get_endpoint", "cancel_endpoint", "delete_endpoint"}
           /\ OpGetEndpoint(j, u) \/ OpCancelEndpoint(j, u) \/ OpDeleteEndpoint(j, u)) =>
             /\ ~Exists(j) => (last'.ret = <<404, FALSE>> /\ UNCHANGED storeVars)
             /\ (Exists(j) /\ store[j].user_id /= u) =>
                   (last'.ret = <<403, FALSE>> /\ UNCHANGED storeVars)]_vars

\* a caller who does not own a terminal record asked to delete it
C18_Witness ==
    /\ last.op = "delete_endpoint"
    /\ last.ret = <<403, FALSE>>
    /\ Exists(last.job_id)
    /\ is_terminal(store[last.job_id])

\* C14: within one queue:{job_type} ids leave in the order they were
\* appended: every change of a queue appends one id at its tail or hands the
\* id at its head to the worker.
C14_Fifo ==
    [][\A ty \in JobType :
          \/ queue'[ty] = queue[ty]
          \/ \E j \in JobIds : queue'[ty] = Append(queue[ty], j)
          \/ /\ queue[ty] /= <<>>
             /\ queue'[ty] = Tail(queue[ty])
             /\ worker'.pc = "load"
             /\ worker'.job_id = Head(queue[ty])]_vars

\* the worker holds an id popped from a queue in which a later created job
\* is now at the head
C14_Witness ==
    /\ worker.pc = "load"
    /\ Exists(worker.job_id)
    /\ queue[store[worker.job_id].job_type] /= <<>>
    /\ worker.job_id < Head(queue[store[worker.job_id].job_type])

\* C15: create_job stores one new pending record with zeroed counters under
\* a fresh id, puts the id first in the user's history list and last in
\* queue:{job_type}, and changes no other record, list or queue.
C15_CreateJob ==
    [][\A u \in Users, req \in LoadRequests :
          CreateJob(u, req, MaxLoadJobs) =>
             LET j == next_id'
             IN /\ ~Exists(j)
                /\ \A ty \in JobType : \A i \in 1..Len(queue[ty]) : queue[ty][i] /= j
                /\ store'[j] /= None
                /\ store'[j].job_id = j
                /\ store'[j].user_id = u
                /\ store'[j].job_type = req[1]
                /\ store'[j].total_items = req[2]
                /\ store'[j].status = PENDING
                /\ store'[j].processed_items = 0
                /\ store'[j].failed_items = 0
                /\ store'[j].retry_count = 0
                /\ store'[j].started_at = NoTime
                /\ store'[j].completed_at = NoTime
                /\ \A k \in JobIds \ {j} : store'[k] = store[k]
                /\ user_jobs'[u] = <<j>> \o user_jobs[u]
                /\ \A v \in Users \ {u} : user_jobs'[v] = user_jobs[v]
                /\ queue'[req[1]] = Append(queue[req[1]], j)
                /\ \A ty \in JobType \ {req[1]} : queue'[ty] = queue[ty]]_vars

\* the newest job heads a history list and ends a queue that hold older ids
C15_Witness ==
    \E u \in Users, ty \in JobType :
       /\ next_id > 1
       /\ Len(user_jobs[u]) > 1
       /\ Head(user_jobs[u]) = next_id
       /\ Len(queue[ty]) > 1
       /\ queue[ty][Len(queue[ty])] = next_id

\* C16: create_job returns a job only when its record is stored and its id
\* is in the dispatch queue of its type; with the store unavailable it
\* raises instead.
C16_CreateRaisesWhenDown ==
    [][\A u \in Users, ty \in OpsJobType, n \in {0, MaxItems} :
          ((OpCreateJob(u, ty, n) \/ OpCreateJobUnavailable(u, ty, n))
              /\ last'.ret = <<TRUE>>)
          => /\ store'[last'.job_id] /= None
             /\ \E i \in 1..Len(queue'[ty]) : queue'[ty][i] = last'.job_id]_vars

\* the ids list_user_jobs is to return: of the first limit ids of the
\* history list, those with a record of the wanted status
Listed(user_id, limit, status_filter) ==
    LET first == SubSeq(user_jobs[user_id], 1,
                        IF limit < Len(user_jobs[user_id])
                        THEN limit ELSE Len(user_jobs[user_id]))
        wanted(j) == /\ Exists(j)
                     /\ (status_filter = NoFilter \/ store[j].status = status_filter)
    IN SelectSeq(first, wanted)

\* C19: for every limit >= 0 list_user_jobs returns at most limit records:
\* those of the first limit ids of the history list that have a record of
\* the wanted status, in the list's order.
C19_ListAtMostLimit ==
    [][\A u \in Users, l \in Limits, f \in Filters :
          (last'.op = "list_user_jobs" /\ OpListUserJobs(u, l, f)) =>
             /\ Len(last'.ret) <= l
             /\ last'.ret = Listed(u, l, f)]_vars

\* C20: cleanup_old_jobs deletes exactly the completed, failed and cancelled
\* records whose completed_at is before now - max_age_hours, returns their
\* number, and touches nothing else.
C20_CleanupOldTerminal ==
    [][\A a \in MaxAges :
          (last'.op = "cleanup_old_jobs" /\ OpCleanupOldJobs(a)) =>
             LET old == {j \in JobIds :
                            /\ Exists(j)
                            /\ is_terminal(store[j])
                            /\ store[j].completed_at /= NoTime
                            /\ store[j].completed_at < now - a}
             IN /\ \A j \in JobIds : store'[j] = IF j \in old THEN None ELSE store[j]
                /\ last'.ret = <<Cardinality(old)>>
                /\ UNCHANGED <<queue, user_jobs>>]_vars

\* a sweep has deleted the one old terminal record
C20_Witness ==
    /\ last.op = "cleanup_old_jobs"
    /\ last.ret = <<1>>
    /\ next_id > 0
    /\ \A j \in JobIds : ~Exists(j)

\* C21: a record that no call deletes stays readable for at least job_ttl
\* after its creation: a key that goes away without delete_job or
\* cleanup_old_jobs goes away no earlier than created_at + job_ttl.
C21_LivesJobTtl ==
    [][\A j \in JobIds :
          (/\ last'.op \notin {"delete_endpoint", "cleanup_old_jobs"}
           /\ Exists(j)
           /\ store'[j] = None)
             => now' >= store[j].created_at + JobTtl]_vars

\* the orchestrator call of the step has written the record of its job
Wrote(ops) ==
    /\ last'.op \in ops
    /\ last'.ret[1] = TRUE
    /\ store'[last'.job_id] /= None

\* C22: the writes of create_job, start_job, update_progress and of a
\* fail_job that retries store the record with TTL job_ttl; the write of
\* complete_job stores it with TTL job_result_ttl.
C22_WriteTtl ==
    [][/\ Wrote({"create_job", "start_job", "update_progress"})
          => expires'[last'.job_id] = now + JobTtl
       /\ (Wrote({"fail_job"}) /\ store'[last'.job_id].status = PENDING)
          => expires'[last'.job_id] = now + JobTtl
       /\ Wrote({"complete_job"})
          => expires'[last'.job_id] = now + JobResultTtl]_vars

\* a job created at time 0 and completed one tick later
C22_Witness ==
    /\ last.op = "complete_job"
    /\ last.ret = <<TRUE>>
    /\ now > 0
    /\ Exists(last.job_id)
    /\ store[last.job_id].created_at < now
    /\ expires[last.job_id] = now + JobResultTtl

\* the fields of a record that create_job sets and no later call may change
Identity(job) ==
    <<job.job_id, job.user_id, job.job_type, job.created_at, job.max_retries,
      job.total_items, job.metadata>>

\* C23: the record under job:{id} has job_id = id, and its job_id, user_id,
\* job_type, created_at, max_retries, total_items and metadata keep the values
\* of create_job through start_job, update_progress, complete_job, fail_job
\* and cancel_job.
C23_IdentityKept ==
    [][\A j \in JobIds :
          /\ store'[j] /= None => store'[j].job_id = j
          /\ (Exists(j) /\ store'[j] /= None) => Identity(store'[j]) = Identity(store[j])]_vars

\* a job created earlier, started, failed into a retry and then completed with
\* items counted
C23_Witness ==
    /\ last.op = "complete_job"
    /\ Exists(last.job_id)
    /\ store[last.job_id].created_at < now
    /\ store[last.job_id].started_at /= NoTime
    /\ store[last.job_id].retry_count > 0
    /\ store[last.job_id].total_items > 0
    /\ store[last.job_id].status = COMPLETED

\* the task has ended with an exception that `await task` raises again
Carries(t) == tasks[t].pc = "done" /\ tasks[t].err /= NoText

\* C24: process_job lets no exception escape: an exception raised by
\* start_job, by the executor or by complete_job takes the task into
\* fail_job(should_retry=True), and no task ends carrying an exception, a
\* failure inside that fail_job call included.
C24_NoEscape ==
    /\ [][\A t \in TaskIds :
             (tasks[t].pc \in {"start_read", "start_write", "exec", "complete_read",
                               "complete_write"}
              /\ tasks'[t].err /= NoText)
                => tasks'[t].pc = "fail_read"]_vars
    /\ [](\A t \in TaskIds : ~Carries(t))

\* C25: a finished task that carries an exception does not stop the loop: the
\* reaping step takes it out of the active set, which frees its slot, and the
\* loop goes on to poll in the same iteration.
C25_ReapRecovers ==
    [][(WorkerReap /\ \E t \in active_tasks : Carries(t)) =>
          /\ \A t \in active_tasks : Carries(t) => t \notin active_tasks'
          /\ Cardinality(active_tasks') < Cardinality(active_tasks)
          /\ \A t \in TaskIds : ~Carries(t)'
          /\ worker'.pc = "poll"]_vars

\* the task of a job has ended with the exception of rpush, has been reaped,
\* and the loop is polling with another task still active
C25_Witness ==
    /\ worker.pc = "poll"
    /\ \E j \in JobIds : raised[j] = "push_error"
    /\ \A t \in TaskIds : ~Carries(t)
    /\ active_tasks /= {}

\* C26: once stop() has been called the worker pops no id from a dispatch
\* queue and spawns no task, the iteration in progress included.
C26_StopPopsNothing ==
    [][~running =>
          /\ \A ty \in JobType : Len(queue'[ty]) >= Len(queue[ty])
          /\ spawned' = spawned
          /\ active_tasks' \subseteq active_tasks]_vars

\* C27: after stop(), with executors that terminate, run() returns; the
\* connection is closed only when every task of the active set is done, so
\* no task is at a store operation once it is closed.
C27_StopReturns ==
    /\ (~running) ~> (worker.pc = "returned")
    /\ [](worker.pc \in {"close", "returned"} => Running = {})
    /\ [][worker.pc = "returned" => tasks' = tasks]_vars

\* run() has returned after waiting for a task that was still active
C27_Witness ==
    /\ worker.pc = "returned"
    /\ ~running
    /\ \E t \in active_tasks : tasks[t].pc = "done"

\* C28: in one iteration the worker visits the type queues in the order of
\* the list, pops at most one id from each, and pops nothing once the number
\* of active tasks has reached max_concurrent_jobs.
C28_OnePopPerType ==
    [][/\ \A ty \in JobType :
             Len(queue'[ty]) < Len(queue[ty]) =>
                /\ worker.pc = "poll"
                /\ ty = PolledTypes[worker.idx]
                /\ Cardinality(active_tasks) < MaxConcurrentJobs
                /\ queue'[ty] = Tail(queue[ty])
                /\ worker' = [worker EXCEPT !.pc = "load", !.job_id = Head(queue[ty])]
       /\ (worker' /= worker /\ worker'.pc = "poll") =>
             \/ worker.pc = "reap" /\ worker'.idx = 1
             \/ worker.pc \in {"poll", "load"} /\ worker'.idx = worker.idx + 1]_vars

\* the worker has popped an id from the second or third queue of an iteration
\* in which it has already spawned a task, with more ids waiting in that queue
C28_Witness ==
    /\ worker.pc = "load"
    /\ worker.idx > 1
    /\ active_tasks /= {}
    /\ \E t \in active_tasks : tasks[t].pc = "start_read"
    /\ queue[PolledTypes[worker.idx]] /= <<>>

\* the id waits in a dispatch queue
Queued(j) == \E ty \in JobType : \E i \in 1..Len(queue[ty]) : queue[ty][i] = j

\* C29: the worker drains the queue of every job type: an id that create_job
\* appended to any queue:{job_type} is eventually popped by a running worker
\* whose executors terminate.
C29_EveryQueueDrained ==
    \A j \in JobIds : Queued(j) ~> ~Queued(j)

\* C30: cancellation is not preemptive: the write of cancel_job leaves the
\* tasks as they are, and the complete_job (fail_job) of a task whose job is
\* stored as cancelled replaces the status with completed (pending or
\* failed).
C30_CancelNotPreemptive ==
    [][/\ \A c \in CallIds :
             CancelJobWrite(c) => tasks' = tasks /\ active_tasks' = active_tasks
       /\ \A t \in TaskIds :
             (tasks[t].pc = "complete_write" /\ TaskCompleteWrite(t)
              /\ store[TaskJob(t)].status = CANCELLED)
                => store'[TaskJob(t)].status = COMPLETED
       /\ \A t \in TaskIds :
             (tasks[t].pc = "fail_write" /\ TaskFailWrite(t)
              /\ store[TaskJob(t)].status = CANCELLED)
                => store'[TaskJob(t)].status \in {PENDING, FAILED}]_vars

\* a job cancelled while its task was executing is stored as completed
C30_Witness ==
    \E j \in JobIds :
       /\ CancelStored(j)
       /\ \E c \in CallIds : calls[c].job_id = j /\ calls[c].job.started_at /= NoTime
       /\ Exists(j)
       /\ store[j].status = COMPLETED
       /\ store[j].retry_count = 0

\* C31: record writes are last-writer-wins: the write of update_progress
\* stores the record it read with the new counts, whatever is stored by then,
\* so over a cancel_job write that fell after its read it restores
\* status = processing.
C31_LastWriterWins ==
    [][\A t \in TaskIds :
          (tasks[t].pc = "up_write" /\ tasks'[t].pc = "exec") =>
             LET a == tasks[t].args
             IN /\ store'[TaskJob(t)] = update_progress(tasks[t].local, a[1], a[2], a[3])
                /\ (tasks[t].local.status = PROCESSING
                    /\ store[TaskJob(t)].status = CANCELLED)
                      => store'[TaskJob(t)].status = PROCESSING]_vars

\* cancel_job has returned the cancelled record of a job that is stored as
\* processing with progress counted
C31_Witness ==
    \E j \in JobIds :
       /\ CancelStored(j)
       /\ Exists(j)
       /\ store[j].status = PROCESSING
       /\ store[j].processed_items > 0
       /\ store[j].retry_count = 0

\* C32: every stored record has processed_items <= total_items, also while
\* the batch executor reports files that succeed and files that fail.
C32_ProcessedAtMostTotal ==
    \A j \in JobIds : Exists(j) => store[j].processed_items <= store[j].total_items

\* C33: result is written by complete_job only: a record that is pending,
\* processing, failed or cancelled has no result, and a record with a result
\* is completed.
C33_ResultOnlyCompleted ==
    \A j \in JobIds :
       Exists(j) => (store[j].result /= NoText <=> store[j].status = COMPLETED)

\* C34: a retried job is never lost: no stored record is pending with its id
\* in no dispatch queue, in no task and not in the hands of the polling loop.
C34_RetryNotLost ==
    \A j \in JobIds :
       (Exists(j) /\ store[j].status = PENDING) => (queued(j) \/ in_flight(j))

\* C35: no two tasks of the pool execute the same job at the same time, and
\* no job id is more than once in the dispatch queues.
C35_OneTaskOneEntry ==
    /\ \A t, u \in Running : t /= u => tasks[t].job.job_id /= tasks[u].job.job_id
    /\ \A ty, tz \in JobType :
          \A i \in 1..Len(queue[ty]), k \in 1..Len(queue[tz]) :
             queue[ty][i] = queue[tz][k] => (ty = tz /\ i = k)

\* a job that is cancelled in the store runs again after a retry, next to the
\* task of another job
C35_Witness ==
    \E j \in JobIds :
       /\ has_task(j)
       /\ CancelStored(j)
       /\ Exists(j)
       /\ store[j].retry_count > 0
       /\ Cardinality(Running) > 1

\* C36: with executors that return, no cancel, no delete and a store that
\* works, every created job of a polled type is handed to its executor exactly
\* once and ends completed for good, and the polled queues end empty.
C36_AllCompleted ==
    /\ \A j \in JobIds : [](Exists(j) => <>[](Exists(j) /\ store[j].status = COMPLETED))
    /\ [](\A j \in JobIds : /\ attempts[j] <= 1
                             /\ spawned[j] <= 1
                             /\ (Exists(j) /\ store[j].status = COMPLETED) => attempts[j] = 1)
    /\ <>[](\A i \in 1..Len(PolledTypes) : queue[PolledTypes[i]] = <<>>)

\* jobs of two types have both been executed once and are completed
C36_Witness ==
    /\ next_id = MaxJobs
    /\ \A j \in 1..MaxJobs : /\ Exists(j)
                              /\ store[j].status = COMPLETED
                              /\ attempts[j] = 1
    /\ store[1].job_type /= store[2].job_type
    /\ \A ty \in JobType : queue[ty] = <<>>

\* C37: in every stored record completed_at is set exactly when the status is
\* completed, failed or cancelled, and started_at is set whenever the status
\* is processing or completed.
C37_StampsMatchStatus ==
    \A j \in JobIds :
       Exists(j) =>
          /\ store[j].completed_at /= NoTime <=> is_terminal(store[j])
          /\ store[j].status \in {PROCESSING, COMPLETED} => store[j].started_at /= NoTime

\* C38: list_user_jobs(u) returns records that exist and belong to u, skipping
\* the ids of its list whose record has expired or been deleted, and no step
\* puts a job id into the history list of a user who is not the job's owner.
C38_OwnRecordsOnly ==
    [][/\ \A u \in Callers, l \in Limits, f \in Filters :
             (last'.op = "list_user_jobs" /\ OpListUserJobs(u, l, f)) =>
                \A i \in 1..Len(last'.ret) :
                   /\ Exists(last'.ret[i])
                   /\ store[last'.ret[i]].user_id = u
       /\ \A u \in Callers : \A i \in 1..Len(user_jobs'[u]) :
             LET j == user_jobs'[u][i]
             IN (\A k \in 1..Len(user_jobs[u]) : user_jobs[u][k] /= j)
                   => (store'[j] /= None /\ store'[j].user_id = u)]_vars

\* a list call has returned the one live record of a user whose history list
\* also holds the id of a record that is gone, while another user has a job
C38_Witness ==
    /\ last.op = "list_user_jobs"
    /\ Len(last.ret) = 1
    /\ \E u \in Callers :
          /\ Len(user_jobs[u]) = 2
          /\ \E i \in 1..2 : ~Exists(user_jobs[u][i])
          /\ \E i \in 1..2 : user_jobs[u][i] = last.ret[1]
          /\ \E v \in Callers \ {u} : user_jobs[v] /= <<>>

\* C39: once DELETE /jobs/{id} has removed the record of a job, the key
\* job:{id} holds no record again: no write of a task still running for the
\* job brings it back.
C39_DeletedStaysDeleted ==
    [][\A j \in JobIds : (j <= next_id /\ ~Exists(j)) => store'[j] = None]_vars

\* C40: the store is read-your-writes per key: get returns the value of the
\* most recent set of the key, nothing when the key was never set or was
\* deleted since, also when calls of the backend fail in between.
C40_ReadYourWrites ==
    [][\A key \in KvKeys, ok \in BOOLEAN :
          (last'.op = "get" /\ ManagerGet(key, ok)) => last'.ret = <<recent[key]>>]_vars
====
